---- MODULE Spec2Model ----
(***************************************************************************)
(* Model of cmd/executorserver/main.go of go-judge: the start-up sequence  *)
(* of the executor server (main), the credential allocator (credGen), and  *)
(* the pools and the worker dispatcher that main wires together.           *)
(***************************************************************************)
EXTENDS Integers, Sequences, FiniteSets, TLC

(***************************************************************************)
(* Bounds of the model.                                                    *)
(***************************************************************************)
NWorkers == 2      \* goroutines calling credGen.Get concurrently
MaxCalls == 3      \* calls to Get in one behaviour
Back == 2          \* how far before a wrap point an allocator state may start
MaxPar == 2        \* largest value of the -parallism flag
NReq == 2          \* run requests in one behaviour

(***************************************************************************)
(* uint32 arithmetic.  A uint32 is the pair <<high 16 bits, low 16 bits>>, *)
(* so that the whole range 0 .. 2^32-1 and its wrap-around are exact.      *)
(***************************************************************************)
Half == 2 ^ 16

U32 == (0 .. Half - 1) \X (0 .. Half - 1)

\* v + k modulo 2^32, for 0 <= k < 2^16
U32Add(v, k) ==
  LET s == v[2] + k
  IN  << (v[1] + (s \div Half)) % Half, s % Half >>

\* v - k modulo 2^32, for 0 <= k < 2^16
U32Sub(v, k) ==
  LET s == v[2] - k
  IN  IF s >= 0 THEN << v[1], s >>
      ELSE << (v[1] + Half - 1) % Half, s + Half >>

U32Less(a, b) == a[1] < b[1] \/ (a[1] = b[1] /\ a[2] < b[2])

U32Leq(a, b) == a = b \/ U32Less(a, b)

U32Zero == << 0, 0 >>

MaxUint32 == << Half - 1, Half - 1 >>

\* the literal of newCredGen
SeedLiteral == 10000

Seed == << 0, SeedLiteral >>

(***************************************************************************)
(* Values that are not there.                                              *)
(***************************************************************************)
None == "none"

NoU32 == << >>

NoCred == [Uid |-> NoU32, Gid |-> NoU32]

NoFlags == {"unset"}

VARIABLES
  \* ---- main: the start-up sequence
  pc,            \* the statement of main that runs next, or "panicked"
  failure,       \* the call whose error made main panic, or None
  netShare,      \* flag -net
  parallism,     \* flag -parallism
  baseFlags,     \* forkexec.UnshareFlags of the build
  root,          \* the container root directory, or None
  m,             \* the number of mount rules built, 0 before the build
  unshareFlags,  \* the local unshareFlags, or None
  b,             \* the container.Builder, or None
  host,          \* what the host's cgroup subsystem exposed to FilterByEnv
  cgb,           \* the cgroup builder (its enabled controllers), or None
  envPool,       \* package variable envPool
  cgroupPool,    \* package variable cgroupPool
  workers,       \* number of workers started by startWorkers
  \* ---- credGen
  cur,           \* credGen.cur, or None before newCredGen
  wpc,           \* per caller of Get: "idle", "add" (before line 140), "ret"
  n,             \* per caller of Get: the local n
  cred,          \* per caller of Get: the syscall.Credential last returned
  issued,        \* history: the values returned so far, as closed intervals
  last,          \* history: the value returned by the latest completed call
  overlap,       \* history: two calls to Get have been in progress at once
  res,           \* history: per caller, the record of its latest completed call
  ncalls,        \* calls to Get begun in this behaviour
  exhausted,     \* history: the counter has passed its maximum
  \* ---- pools and worker dispatcher
  rpc,           \* per run request: its position in the dispatcher
  slots,         \* free concurrency slots
  envReady,      \* Environments ready in the pool
  envOut,        \* per request: the Environment it has checked out, or None
  cgReady,       \* Cgroup instances ready in the pool
  cgOut,         \* per request: the Cgroup instance it has checked out, or None
  outcome        \* per request: the result not yet returned, or None

mainVars == << pc, failure, netShare, parallism, baseFlags, root, m,
               unshareFlags, b, host, cgb, envPool, cgroupPool, workers >>

credVars == << cur, wpc, n, cred, issued, last, overlap, res, ncalls,
              exhausted >>

poolVars == << rpc, slots, envReady, envOut, cgReady, cgOut, outcome >>

vars == << mainVars, credVars, poolVars >>

(***************************************************************************)
(* credGen: the credential allocator.                                      *)
(***************************************************************************)
Callers == 1 .. NWorkers

NoRes == [val |-> NoU32, prev |-> NoU32, seq |-> FALSE, exh |-> FALSE,
          reused |-> FALSE]

\* the closed interval of uint32 values lo .. hi
Interval(lo, hi) == [lo |-> lo, hi |-> hi]

WasIssued(v, hist) == \E i \in hist : U32Leq(i.lo, v) /\ U32Leq(v, i.hi)

\* newCredGen: &credGen{cur: 10000}
newCredGen == Seed

\* atomic.AddUint32(&c.cur, delta): the new value is stored and returned
AddUint32Old(c, delta) == [new |-> U32Add(c, delta), ret |-> c]

AddUint32(c, delta) == [new |-> U32Add(c, delta), ret |-> U32Add(c, delta)]

\* the states of a credGen after some number of sequential calls to Get:
\* just built; d calls before the counter's maximum; 2^32 - d calls made
CredFresh ==
  [cur |-> newCredGen, issued |-> {}, last |-> NoU32, exhausted |-> FALSE]

CredNearMax(d) ==
  LET c == U32Sub(MaxUint32, d)
  IN  [cur |-> c, issued |-> {Interval(U32Add(Seed, 1), c)}, last |-> c,
       exhausted |-> FALSE]

CredWrapped(d) ==
  LET c == U32Sub(Seed, d)
  IN  [cur |-> c,
       issued |-> {Interval(U32Add(Seed, 1), MaxUint32), Interval(U32Zero, c)},
       last |-> c, exhausted |-> TRUE]

CredStates ==
  {CredFresh} \cup {CredNearMax(d) : d \in 0 .. Back}
              \cup {CredWrapped(d) : d \in 0 .. Back}

\* a caller enters Get
GetCall(w) ==
  /\ cur # NoU32
  /\ wpc[w] = "idle"
  /\ ncalls < MaxCalls
  /\ ncalls' = ncalls + 1
  /\ wpc' = [wpc EXCEPT ![w] = "add"]
  /\ overlap' = (overlap \/ \E u \in Callers : wpc[u] # "idle")
  /\ UNCHANGED << cur, n, cred, issued, last, res, exhausted, mainVars,
                  poolVars >>

\* line 140: n := atomic.AddUint32(&c.cur, 1)
GetAdd(w) ==
  /\ wpc[w] = "add"
  /\ LET r == AddUint32(cur, 1)
     IN  /\ cur' = r.new
         /\ n' = [n EXCEPT ![w] = r.ret]
  /\ exhausted' = (exhausted \/ cur = MaxUint32)
  /\ wpc' = [wpc EXCEPT ![w] = "ret"]
  /\ UNCHANGED << cred, issued, last, overlap, res, ncalls, mainVars,
                  poolVars >>

\* lines 141-144: return syscall.Credential{Uid: n, Gid: n}
GetReturn(w) ==
  /\ wpc[w] = "ret"
  /\ cred' = [cred EXCEPT ![w] = [Uid |-> n[w], Gid |-> n[w]]]
  /\ res' = [res EXCEPT ![w] = [val |-> n[w], prev |-> last, seq |-> ~overlap,
                                exh |-> exhausted,
                                reused |-> WasIssued(n[w], issued)]]
  /\ issued' = issued \cup {Interval(n[w], n[w])}
  /\ last' = n[w]
  /\ wpc' = [wpc EXCEPT ![w] = "idle"]
  /\ UNCHANGED << cur, n, overlap, ncalls, exhausted, mainVars, poolVars >>

(***************************************************************************)
(* main: the start-up sequence.                                            *)
(***************************************************************************)
Requests == 1 .. NReq

\* the namespace bits of a clone flag word, as the set of the bits that are set
CloneFlags == {"CLONE_NEWNS", "CLONE_NEWPID", "CLONE_NEWUTS", "CLONE_NEWIPC",
               "CLONE_NEWNET", "CLONE_NEWUSER", "CLONE_NEWCGROUP"}

\* forkexec.UnshareFlags: the candidate unshare flags of criyle/go-sandbox
UnshareFlags == CloneFlags

\* a ^ x on flag words
Xor(a, x) == (a \ x) \cup (x \ a)

\* lines 90-93: unshareFlags := UnshareFlags; if *netShare { ^= CLONE_NEWNET }
ComputeFlagsNoToggle(base, share) == base

ComputeFlags(base, share) ==
  IF share THEN Xor(base, {"CLONE_NEWNET"}) ELSE base

\* lines 61-83: the mounts declared on mount.NewBuilder(), in order
Bind(src, tgt, ro) == [kind |-> "bind", source |-> src, target |-> tgt,
                       readonly |-> ro, data |-> ""]

Tmpfs(tgt, data) == [kind |-> "tmpfs", source |-> "tmpfs", target |-> tgt,
                     readonly |-> FALSE, data |-> data]

Proc == [kind |-> "proc", source |-> "proc", target |-> "proc",
         readonly |-> TRUE, data |-> ""]

tmpFsParam == "size=8m,nr_inodes=4k"

DefaultMounts ==
  << Bind("/bin", "bin", TRUE), Bind("/lib", "lib", TRUE),
     Bind("/lib64", "lib64", TRUE), Bind("/usr", "usr", TRUE), Proc,
     Bind("/etc/alternatives", "etc/alternatives", TRUE),
     Bind("/etc/fpc.cfg", "etc/fpc.cfg", TRUE),
     Bind("/dev/null", "dev/null", FALSE),
     Bind("/var/lib/ghc", "var/lib/ghc", TRUE),
     Tmpfs("w", tmpFsParam), Tmpfs("tmp", tmpFsParam) >>

\* line 102: WithCPUAcct().WithMemory().WithPids()
Declared == {"cpuacct", "memory", "pids"}

NoHost == [readable |-> FALSE, avail |-> NoFlags]

\* FilterByEnv: keeps the declared controllers the host exposes; its only
\* error is that the host's controller list cannot be read
FilterByEnv(declared, h) ==
  IF h.readable THEN [err |-> FALSE, ctl |-> declared \cap h.avail]
  ELSE [err |-> TRUE, ctl |-> declared]

NoBuilder == [Root |-> None, Mounts |-> 0, Stderr |-> FALSE,
              CloneFlags |-> NoFlags]

\* panic(err)
Panic(what) ==
  /\ pc' = "panicked"
  /\ failure' = what

\* lines 55-59: root, err := ioutil.TempDir("", "dm")
MainTempDirNoPanic ==
  /\ pc = "TempDir"
  /\ \E ok \in BOOLEAN :
       /\ root' = IF ok THEN "dm" ELSE ""
       /\ failure' = IF ok THEN failure ELSE "TempDir"
       /\ pc' = "Build"
  /\ UNCHANGED << netShare, parallism, baseFlags, m, unshareFlags, b, host,
                  cgb, envPool, cgroupPool, workers, credVars, poolVars >>

MainTempDir ==
  /\ pc = "TempDir"
  /\ \E ok \in BOOLEAN :
       IF ok THEN /\ root' = "dm"
                  /\ pc' = "Build"
                  /\ UNCHANGED failure
       ELSE /\ Panic("TempDir")
            /\ UNCHANGED root
  /\ UNCHANGED << netShare, parallism, baseFlags, m, unshareFlags, b, host,
                  cgb, envPool, cgroupPool, workers, credVars, poolVars >>

\* lines 61-88: m, err := mb.Build(true)
MainMountBuild ==
  /\ pc = "Build"
  /\ \E ok \in BOOLEAN :
       IF ok THEN /\ m' = Len(DefaultMounts)
                  /\ pc' = "unshareFlags"
                  /\ UNCHANGED failure
       ELSE /\ Panic("Build")
            /\ UNCHANGED m
  /\ UNCHANGED << netShare, parallism, baseFlags, root, unshareFlags, b, host,
                  cgb, envPool, cgroupPool, workers, credVars, poolVars >>

\* lines 90-93
MainUnshareFlags ==
  /\ pc = "unshareFlags"
  /\ unshareFlags' = ComputeFlags(baseFlags, netShare)
  /\ pc' = "Builder"
  /\ UNCHANGED << failure, netShare, parallism, baseFlags, root, m, b, host,
                  cgb, envPool, cgroupPool, workers, credVars, poolVars >>

\* lines 95-101: b := &container.Builder{...}, with newCredGen()
MainBuilder ==
  /\ pc = "Builder"
  /\ b' = [Root |-> root, Mounts |-> m, Stderr |-> TRUE,
           CloneFlags |-> unshareFlags]
  /\ cur' = newCredGen
  /\ pc' = "FilterByEnv"
  /\ UNCHANGED << failure, netShare, parallism, baseFlags, root, m,
                  unshareFlags, host, cgb, envPool, cgroupPool, workers,
                  wpc, n, cred, issued, last, overlap, res, ncalls, exhausted,
                  poolVars >>

\* lines 102-106: cgb, err := cgroup.NewBuilder(...)...FilterByEnv()
MainCgroupBuilderNoPanic ==
  /\ pc = "FilterByEnv"
  /\ \E rd \in BOOLEAN, av \in SUBSET Declared :
       LET h == [readable |-> rd, avail |-> av]
           r == FilterByEnv(Declared, h)
       IN  /\ host' = h
           /\ cgb' = r.ctl
           /\ failure' = IF r.err THEN "FilterByEnv" ELSE failure
           /\ pc' = "pools"
  /\ UNCHANGED << netShare, parallism, baseFlags, root, m, unshareFlags, b,
                  envPool, cgroupPool, workers, credVars, poolVars >>

MainCgroupBuilder ==
  /\ pc = "FilterByEnv"
  /\ \E rd \in BOOLEAN, av \in SUBSET Declared :
       LET h == [readable |-> rd, avail |-> av]
           r == FilterByEnv(Declared, h)
       IN  /\ host' = h
           /\ cgb' = r.ctl
           /\ IF r.err THEN Panic("FilterByEnv")
              ELSE pc' = "pools" /\ UNCHANGED failure
  /\ UNCHANGED << netShare, parallism, baseFlags, root, m, unshareFlags, b,
                  envPool, cgroupPool, workers, credVars, poolVars >>

\* lines 108-109: envPool = pool.NewEnvPool(b); cgroupPool = ...(cgb)
MainPools ==
  /\ pc = "pools"
  /\ envPool' = "created"
  /\ cgroupPool' = "created"
  /\ envReady' = {}
  /\ cgReady' = {}
  /\ pc' = "startWorkers"
  /\ UNCHANGED << failure, netShare, parallism, baseFlags, root, m,
                  unshareFlags, b, host, cgb, workers, credVars,
                  rpc, slots, envOut, cgOut, outcome >>

\* lines 111-112: startWorkers(), with *parallism workers
StartedWorkersOneMore(p) == p + 1

StartedWorkers(p) == p

MainStartWorkers ==
  /\ pc = "startWorkers"
  /\ workers' = StartedWorkers(parallism)
  /\ slots' = StartedWorkers(parallism)
  /\ pc' = "Run"
  /\ UNCHANGED << failure, netShare, parallism, baseFlags, root, m,
                  unshareFlags, b, host, cgb, envPool, cgroupPool, credVars,
                  rpc, envReady, envOut, cgReady, cgOut, outcome >>

\* lines 114-128: the routes are registered and r.Run(*addr) serves
MainRun ==
  /\ pc = "Run"
  /\ pc' = "serving"
  /\ UNCHANGED << failure, netShare, parallism, baseFlags, root, m,
                  unshareFlags, b, host, cgb, envPool, cgroupPool, workers,
                  credVars, poolVars >>

\* line 125: POST /run reaches handleRun once the server serves
Submit(r) ==
  /\ pc = "serving"
  /\ rpc[r] = "new"
  /\ rpc' = [rpc EXCEPT ![r] = "waiting"]
  /\ UNCHANGED << mainVars, credVars, slots, envReady, envOut, cgReady, cgOut,
                  outcome >>

\* the allocator, the pools and the dispatcher before main has built them
CredIdle ==
  /\ wpc = [w \in Callers |-> "idle"]
  /\ n = [w \in Callers |-> NoU32]
  /\ cred = [w \in Callers |-> NoCred]
  /\ overlap = FALSE
  /\ res = [w \in Callers |-> NoRes]
  /\ ncalls = 0

PoolIdle ==
  /\ rpc = [r \in Requests |-> "new"]
  /\ envReady = {}
  /\ envOut = [r \in Requests |-> 0]
  /\ cgReady = {}
  /\ cgOut = [r \in Requests |-> 0]
  /\ outcome = [r \in Requests |-> None]

\* lines 22-36, 43: the flags are parsed, nothing is built yet
Init ==
  /\ pc = "TempDir"
  /\ failure = None
  /\ netShare \in BOOLEAN
  /\ parallism \in 1 .. MaxPar
  /\ baseFlags = UnshareFlags
  /\ root = None
  /\ m = 0
  /\ unshareFlags = NoFlags
  /\ b = NoBuilder
  /\ host = NoHost
  /\ cgb = NoFlags
  /\ envPool = "nil"
  /\ cgroupPool = "nil"
  /\ workers = 0
  /\ cur = NoU32
  /\ issued = {}
  /\ last = NoU32
  /\ exhausted = FALSE
  /\ CredIdle
  /\ slots = 0
  /\ PoolIdle

Next ==
  \/ MainTempDir
  \/ MainMountBuild
  \/ MainUnshareFlags
  \/ MainBuilder
  \/ MainCgroupBuilder
  \/ MainPools
  \/ MainStartWorkers
  \/ MainRun
  \/ \E r \in Requests : Submit(r)

Spec == Init /\ [][Next]_vars

(***************************************************************************)
(* The server once main has started it without error.                      *)
(***************************************************************************)
Started(p, share, h) ==
  /\ pc = "serving"
  /\ failure = None
  /\ netShare = share
  /\ parallism = p
  /\ baseFlags = UnshareFlags
  /\ root = "dm"
  /\ m = Len(DefaultMounts)
  /\ unshareFlags = ComputeFlags(UnshareFlags, share)
  /\ b = [Root |-> "dm", Mounts |-> Len(DefaultMounts), Stderr |-> TRUE,
          CloneFlags |-> ComputeFlags(UnshareFlags, share)]
  /\ host = h
  /\ cgb = FilterByEnv(Declared, h).ctl
  /\ envPool = "created"
  /\ cgroupPool = "created"
  /\ workers = StartedWorkers(p)

AllControllers == [readable |-> TRUE, avail |-> Declared]

(***************************************************************************)
(* The allocator in use: the callers of Get are the workers, and the       *)
(* allocator starts in a state that sequential calls to Get lead to.       *)
(***************************************************************************)
InitCred ==
  /\ Started(NWorkers, FALSE, AllControllers)
  /\ \E c \in CredStates :
       /\ cur = c.cur
       /\ issued = c.issued
       /\ last = c.last
       /\ exhausted = c.exhausted
  /\ CredIdle
  /\ slots = NWorkers
  /\ PoolIdle

NextCred == \E w \in Callers : GetCall(w) \/ GetAdd(w) \/ GetReturn(w)

SpecCred == InitCred /\ [][NextCred]_vars

(***************************************************************************)
(* The pools and the worker dispatcher.  Every pool holds at most          *)
(* parallism instances; an instance is one of 1 .. parallism, 0 is none.   *)
(***************************************************************************)
Outcomes == {"success", "timeout", "crash", "error", "cancelled"}

Capacity == parallism

Holding == {"slot", "env", "run", "ran"}

SlotHolders == {r \in Requests : rpc[r] \in Holding}

EnvCheckedOut == {envOut[r] : r \in Requests} \ {0}

CgCheckedOut == {cgOut[r] : r \in Requests} \ {0}

\* what a pool can still hand out: its capacity less what is checked out
EnvAvailable == Capacity - Cardinality({r \in Requests : envOut[r] # 0})

CgAvailable == Capacity - Cardinality({r \in Requests : cgOut[r] # 0})

\* the instance a pool builds: one that is neither ready nor checked out
Fresh(ready, out) == CHOOSE i \in 1 .. Capacity : i \notin ready \cup out

\* the dispatcher: block until a concurrency slot is free
AcquireSlot(r) ==
  /\ rpc[r] = "waiting"
  /\ slots > 0
  /\ slots' = slots - 1
  /\ rpc' = [rpc EXCEPT ![r] = "slot"]
  /\ UNCHANGED << mainVars, credVars, envReady, envOut, cgReady, cgOut,
                  outcome >>

\* Pool.checkout of an Environment: a ready instance, or a new one
TakeEnvShared(ready, e) == ready

TakeEnv(ready, e) == ready \ {e}

CheckoutEnv(r) ==
  /\ rpc[r] = "slot"
  /\ \/ \E e \in envReady :
          /\ envReady' = TakeEnv(envReady, e)
          /\ envOut' = [envOut EXCEPT ![r] = e]
          /\ rpc' = [rpc EXCEPT ![r] = "env"]
          /\ UNCHANGED outcome
     \/ /\ envReady = {}
        /\ Cardinality(EnvCheckedOut) < Capacity
        /\ \E ok \in BOOLEAN :
             IF ok
             THEN /\ envOut' = [envOut EXCEPT
                                  ![r] = Fresh(envReady, EnvCheckedOut)]
                  /\ rpc' = [rpc EXCEPT ![r] = "env"]
                  /\ UNCHANGED << envReady, outcome >>
             ELSE /\ outcome' = [outcome EXCEPT ![r] = "acquisition"]
                  /\ rpc' = [rpc EXCEPT ![r] = "ran"]
                  /\ UNCHANGED << envReady, envOut >>
  /\ UNCHANGED << mainVars, credVars, slots, cgReady, cgOut >>

\* Pool.checkout of a Cgroup instance
CheckoutCgroup(r) ==
  /\ rpc[r] = "env"
  /\ \/ \E c \in cgReady :
          /\ cgReady' = cgReady \ {c}
          /\ cgOut' = [cgOut EXCEPT ![r] = c]
          /\ rpc' = [rpc EXCEPT ![r] = "run"]
          /\ UNCHANGED outcome
     \/ /\ cgReady = {}
        /\ Cardinality(CgCheckedOut) < Capacity
        /\ \E ok \in BOOLEAN :
             IF ok
             THEN /\ cgOut' = [cgOut EXCEPT
                                 ![r] = Fresh(cgReady, CgCheckedOut)]
                  /\ rpc' = [rpc EXCEPT ![r] = "run"]
                  /\ UNCHANGED << cgReady, outcome >>
             ELSE /\ outcome' = [outcome EXCEPT ![r] = "acquisition"]
                  /\ rpc' = [rpc EXCEPT ![r] = "ran"]
                  /\ UNCHANGED << cgReady, cgOut >>
  /\ UNCHANGED << mainVars, credVars, slots, envReady, envOut >>

\* where the dispatcher goes once the execution collaborator has ended
AfterRunLeak(o) == IF o = "cancelled" THEN "return" ELSE "ran"

AfterRun(o) == "ran"

\* the run is delegated to the execution collaborator and ends somehow
Run(r) ==
  /\ rpc[r] = "run"
  /\ \E o \in Outcomes :
       /\ outcome' = [outcome EXCEPT ![r] = o]
       /\ rpc' = [rpc EXCEPT ![r] = AfterRun(o)]
  /\ UNCHANGED << mainVars, credVars, slots, envReady, envOut, cgReady, cgOut >>

\* Pool.release: the instance is reset and ready again, or destroyed if
\* the reset is unsafe
Put(ready, i, safe) == IF i # 0 /\ safe THEN ready \cup {i} ELSE ready

\* whatever the outcome, both resources and the slot are released
Release(r) ==
  /\ rpc[r] = "ran"
  /\ \E safe \in BOOLEAN : cgReady' = Put(cgReady, cgOut[r], safe)
  /\ cgOut' = [cgOut EXCEPT ![r] = 0]
  /\ \E safe \in BOOLEAN : envReady' = Put(envReady, envOut[r], safe)
  /\ envOut' = [envOut EXCEPT ![r] = 0]
  /\ slots' = slots + 1
  /\ rpc' = [rpc EXCEPT ![r] = "return"]
  /\ UNCHANGED << mainVars, credVars, outcome >>

\* the result goes back to the caller
Return(r) ==
  /\ rpc[r] = "return"
  /\ rpc' = [rpc EXCEPT ![r] = "done"]
  /\ outcome' = [outcome EXCEPT ![r] = None]
  /\ UNCHANGED << mainVars, credVars, slots, envReady, envOut, cgReady, cgOut >>

Dispatch(r) ==
  \/ AcquireSlot(r)
  \/ CheckoutEnv(r)
  \/ CheckoutCgroup(r)
  \/ Run(r)
  \/ Release(r)
  \/ Return(r)

InitPool ==
  /\ \E p \in 1 .. MaxPar : Started(p, FALSE, AllControllers) /\ slots = workers
  /\ cur = newCredGen
  /\ issued = {}
  /\ last = NoU32
  /\ exhausted = FALSE
  /\ CredIdle
  /\ PoolIdle

NextPool ==
  \/ \E r \in Requests : Submit(r)
  \/ \E r \in Requests : AcquireSlot(r)
  \/ \E r \in Requests : CheckoutEnv(r)
  \/ \E r \in Requests : CheckoutCgroup(r)
  \/ \E r \in Requests : Run(r)
  \/ \E r \in Requests : Release(r)
  \/ \E r \in Requests : Return(r)

SpecPool == InitPool /\ [][NextPool]_vars

(***************************************************************************)
(* The unshare flags as a function of the base flag word and of -net.      *)
(***************************************************************************)
InitFlags ==
  /\ pc = "unshareFlags"
  /\ failure = None
  /\ netShare \in BOOLEAN
  /\ parallism = 1
  /\ baseFlags \in SUBSET CloneFlags
  /\ root = "dm"
  /\ m = Len(DefaultMounts)
  /\ unshareFlags = NoFlags
  /\ b = NoBuilder
  /\ host = NoHost
  /\ cgb = NoFlags
  /\ envPool = "nil"
  /\ cgroupPool = "nil"
  /\ workers = 0
  /\ cur = NoU32
  /\ issued = {}
  /\ last = NoU32
  /\ exhausted = FALSE
  /\ CredIdle
  /\ slots = 0
  /\ PoolIdle

NextFlags == MainUnshareFlags

SpecFlags == InitFlags /\ [][NextFlags]_vars

(***************************************************************************)
(* Properties of the credential allocator, under SpecCred.                 *)
(***************************************************************************)
Returned(w) == res[w].val # NoU32

\* C1: any two calls to Get, concurrent or not, return credentials that
\* differ in uid and in gid: no call returns a value that another call has
\* returned, and the credentials two callers hold differ.
C1_DistinctCredentials ==
  /\ \A w \in Callers : Returned(w) => ~res[w].reused
  /\ \A w1, w2 \in Callers :
       (w1 # w2 /\ Returned(w1) /\ Returned(w2))
         => (cred[w1].Uid # cred[w2].Uid /\ cred[w1].Gid # cred[w2].Gid)

\* C2: while the counter's range is not exhausted, sequential calls to Get
\* on an allocator made by newCredGen return values that were never returned
\* before, the first one seed + 1 and each later one exactly 1 greater, and
\* greater, than the value of the call before it.
C2_SequentialIncreasing ==
  \A w \in Callers :
    (Returned(w) /\ res[w].seq /\ ~res[w].exh)
      => /\ ~res[w].reused
         /\ cred[w] = [Uid |-> res[w].val, Gid |-> res[w].val]
         /\ IF res[w].prev = NoU32
            THEN res[w].val = U32Add(Seed, 1)
            ELSE /\ res[w].val = U32Add(res[w].prev, 1)
                 /\ U32Less(res[w].prev, res[w].val)

\* the second of two sequential calls on a new allocator has returned
C2_Witness ==
  \E w \in Callers :
    /\ Returned(w) /\ res[w].seq /\ ~res[w].exh
    /\ res[w].prev = U32Add(Seed, 1)
    /\ res[w].val = U32Add(Seed, 2)

\* C3: once the counter's range is exhausted, a call to Get still does not
\* return a value that an earlier call has returned.
C3_NoReuseAfterExhaustion ==
  \A w \in Callers : (Returned(w) /\ res[w].exh) => ~res[w].reused

\* C10: every credential Get returns has uid = gid, strictly greater than
\* the seed 10000; in particular it is never uid 0.
C10_Unprivileged ==
  \A w \in Callers :
    cred[w] # NoCred
      => /\ cred[w].Uid = cred[w].Gid
         /\ U32Less(Seed, cred[w].Uid)

(***************************************************************************)
(* Properties of the pools and the dispatcher, under SpecPool.             *)
(***************************************************************************)
\* C4: the Environments checked out at once, and the executions holding a
\* concurrency slot at once, never number more than the parallelism.
C4_BoundedByParallelism ==
  /\ Cardinality({r \in Requests : envOut[r] # 0}) <= parallism
  /\ Cardinality(SlotHolders) <= parallism
  /\ slots >= 0

\* more requests than slots are in the dispatcher and every slot is taken
C4_Witness ==
  /\ Cardinality(SlotHolders) = parallism
  /\ Cardinality({r \in Requests : envOut[r] # 0}) = parallism
  /\ \E r \in Requests : rpc[r] = "waiting"

Released(r) == envOut[r] = 0 /\ cgOut[r] = 0 /\ r \notin SlotHolders

Quiet == \A r \in Requests : rpc[r] \in {"new", "done"}

\* C5: an execution that holds a slot, an Environment or a Cgroup instance
\* can always take its next step towards the release, whatever the outcome
\* of its run, and holds none of them when its result is returned; when no
\* request is in progress the free slots and each pool's available count
\* are what they were before any request.
C5_AlwaysReleased ==
  /\ \A r \in Requests :
       /\ rpc[r] \in Holding => ENABLED Dispatch(r)
       /\ rpc[r] \in {"return", "done"} => Released(r)
       /\ rpc[r] \in {"new", "waiting"} => Released(r)
  /\ Quiet => /\ slots = parallism
              /\ EnvAvailable = Capacity
              /\ CgAvailable = Capacity

\* a cancelled run has released everything and awaits its return
C5_Witness ==
  \E r \in Requests :
    rpc[r] = "return" /\ outcome[r] = "cancelled" /\ Released(r)

\* C6: an Environment, and a Cgroup instance, is held by at most one
\* execution, and one that is checked out is not ready for another checkout.
C6_ExclusiveCheckout ==
  /\ \A r1, r2 \in Requests :
       r1 # r2 => /\ envOut[r1] # 0 => envOut[r1] # envOut[r2]
                  /\ cgOut[r1] # 0 => cgOut[r1] # cgOut[r2]
  /\ envReady \cap EnvCheckedOut = {}
  /\ cgReady \cap CgCheckedOut = {}

\* two executions hold an Environment and a Cgroup instance each, at once
C6_Witness ==
  \E r1, r2 \in Requests :
    /\ r1 # r2
    /\ envOut[r1] # 0 /\ envOut[r2] # 0
    /\ cgOut[r1] # 0 /\ cgOut[r2] # 0

(***************************************************************************)
(* Properties of the start-up sequence, under Spec.                        *)
(***************************************************************************)
Queried == host # NoHost

C8_StartupFailureFatal ==
  /\ failure # None
       => /\ pc = "panicked"
          /\ envPool = "nil" /\ cgroupPool = "nil" /\ workers = 0
          /\ \A r \in Requests : rpc[r] = "new"
  /\ failure = "TempDir" => (root = None /\ m = 0)
  /\ failure \in {"TempDir", "Build"}
       => (unshareFlags = NoFlags /\ b = NoBuilder /\ cur = NoU32 /\ ~Queried)
  /\ (\E r \in Requests : rpc[r] # "new")
       => (envPool = "created" /\ cgroupPool = "created"
           /\ workers = parallism /\ failure = None)

\* the mount build has failed and main has panicked
C8_Witness == pc = "panicked" /\ failure = "Build" /\ root = "dm"

(***************************************************************************)
(* Properties of the unshare flags, under SpecFlags.                       *)
(***************************************************************************)
Four == {"CLONE_NEWNS", "CLONE_NEWPID", "CLONE_NEWUTS", "CLONE_NEWIPC"}

Net == "CLONE_NEWNET"

Computed == pc = "Builder"

====
